---- MODULE Spec2Model ----
(***************************************************************************)
(* news-cli: the ingestion pipeline (src/news/fetch.rs), the grouping and  *)
(* label builder (src/news/mod.rs) and the navigation engine (src/ui.rs).  *)
(***************************************************************************)
EXTENDS Integers, Sequences, FiniteSets, TLC

(* ------------------------------ bounds --------------------------------- *)
\* longest configured feed list
MaxFeeds == 2
\* entries parsed over one collect_stories call, all feeds together
MaxEntries == 2
\* chunks one response body is delivered in
MaxChunks == 2
\* stories behind the menus that are navigated
MaxStories == 4
\* characters of a typed line
MaxLine == 2

(* ----------------------- strings, URLs, candidates --------------------- *)
\* A URL string is the sequence of its lexemes (scheme, host, path segments);
\* String's Ord is the lexicographic order of those sequences.
TokRank(t) ==
    CASE t = "" -> 0
      [] t = "a" -> 1
      [] t = "b" -> 2
      [] t = "feed" -> 3
      [] t = "ftp" -> 4
      [] t = "http" -> 5
      [] t = "https" -> 6
      [] t = "mailto" -> 7
      [] t = "p" -> 8
      [] t = "x.com" -> 9
      [] OTHER -> 10

RECURSIVE StrLess(_, _)
StrLess(a, b) ==
    IF a = <<>> THEN b # <<>>
    ELSE IF b = <<>> THEN FALSE
    ELSE IF Head(a) = Head(b) THEN StrLess(Tail(a), Tail(b))
    ELSE TokRank(Head(a)) < TokRank(Head(b))

NoUrl == [scheme |-> "", host |-> "", path |-> <<>>]
MkUrl(scheme, host, path) == [scheme |-> scheme, host |-> host, path |-> path]

\* Url::into_string: the canonical string of a parsed URL
IntoString(u) == <<u.scheme, u.host>> \o u.path

\* the scheme a link string starts with
SchemeOf(link) == IF link = <<>> THEN "" ELSE Head(link)

\* A candidate href as written in a feed: blank ("" or only whitespace), an
\* absolute URL (scheme in any letter case, maybe padded with whitespace), a
\* relative reference (rooted "/a" or not "b"), or text no URL parser accepts.
Blank(ws) ==
    [kind |-> "blank", ws |-> ws, scheme |-> "", host |-> "", rooted |-> FALSE, segs |-> <<>>]
Abs(ws, scheme, host, segs) ==
    [kind |-> "absolute", ws |-> ws, scheme |-> scheme, host |-> host, rooted |-> TRUE, segs |-> segs]
Rel(rooted, segs) ==
    [kind |-> "relative", ws |-> FALSE, scheme |-> "", host |-> "", rooted |-> rooted, segs |-> segs]
Malformed ==
    [kind |-> "malformed", ws |-> FALSE, scheme |-> "http", host |-> "[", rooted |-> TRUE, segs |-> <<>>]

LowerScheme(s) ==
    CASE s = "HTTPS" -> "https"
      [] s = "HTTP" -> "http"
      [] OTHER -> s

Err == [ok |-> FALSE, url |-> NoUrl]
Ok(u) == [ok |-> TRUE, url |-> u]

\* Url::parse(candidate): only an absolute URL parses; the scheme is lowercased
\* and surrounding whitespace dropped
UrlParse(c) ==
    IF c.kind = "absolute" THEN Ok(MkUrl(LowerScheme(c.scheme), c.host, c.segs)) ELSE Err

\* the directory of a path: everything up to the last "/"
DirOf(path) == IF path = <<>> THEN <<>> ELSE SubSeq(path, 1, Len(path) - 1)

\* base.join(candidate): relative-reference resolution against the base
UrlJoin(b, c) ==
    CASE c.kind = "absolute" -> UrlParse(c)
      [] c.kind = "blank" -> Ok(b)
      [] c.kind = "relative" ->
            Ok(MkUrl(b.scheme, b.host, IF c.rooted THEN c.segs ELSE DirOf(b.path) \o c.segs))
      [] OTHER -> Err

None == [some |-> FALSE, val |-> <<>>]
Some(v) == [some |-> TRUE, val |-> v]

\* an emptiness test that no candidate passes
NeverEmpty(c) == FALSE

\* candidate.trim().is_empty()
TrimIsEmpty(c) == c.kind = "blank"

\* a scheme test that lets every scheme through
AnyScheme(u) == TRUE

\* the scheme test that ends normalize_link
SchemeAccepted(u) == u.scheme \in {"http", "https"}

\* normalize_link(candidate, base); base is None for a local file
normalize_link(candidate, base) ==
    IF TrimIsEmpty(candidate) THEN None
    ELSE LET p == UrlParse(candidate)
             r == IF p.ok THEN p
                  ELSE IF ~base.some THEN Err
                  ELSE UrlJoin(base.val, candidate)
         IN  IF ~r.ok THEN None
             ELSE IF SchemeAccepted(r.url) THEN Some(IntoString(r.url))
             ELSE None

(* ------------------------------ entries -------------------------------- *)
NoTitle == "<none>"
Link(rel, href) == [rel |-> rel, href |-> href]
Entry(title, links) == [title |-> title, links |-> links]

\* entry.title ... unwrap_or_else(|| "(untitled)")
TitleOf(entry) == IF entry.title = NoTitle THEN "(untitled)" ELSE entry.title

\* the href of the first link with rel "alternate", else of the first link, else ""
RawLink(entry) ==
    LET alt == {i \in 1..Len(entry.links) : entry.links[i].rel = "alternate"}
    IN  IF alt # {} THEN entry.links[CHOOSE i \in alt : \A j \in alt : i <= j].href
        ELSE IF entry.links # <<>> THEN entry.links[1].href
        ELSE Blank(FALSE)

\* SeenStories::is_seen
is_seen(seen_links, link) == link \in seen_links

\* a mark that is lost
NotMarked(seen_links, link) == seen_links

\* SeenStories::mark_as_seen
mark_as_seen(seen_links, link) == seen_links \cup {link}

\* the flag without its negation
IsSeenFlag(seen_links, link) == is_seen(seen_links, link)

\* the is_new flag push_entries gives a story
IsNewFlag(seen_links, link) == ~is_seen(seen_links, link)

\* a push that labels the story with what the feed calls itself
PushEntryByFeedTitle(v, entry, source, base, seen_links) ==
    LET n == normalize_link(RawLink(entry), base)
    IN  IF n.some
        THEN Append(v, [title |-> TitleOf(entry), link |-> n.val, source |-> "BBC News",
                        is_new |-> IsNewFlag(seen_links, n.val)])
        ELSE v

\* one iteration of the loop of push_entries
PushEntry(v, entry, source, base, seen_links) ==
    LET n == normalize_link(RawLink(entry), base)
    IN  IF n.some
        THEN Append(v, [title |-> TitleOf(entry), link |-> n.val, source |-> source,
                        is_new |-> IsNewFlag(seen_links, n.val)])
        ELSE v

RECURSIVE push_entries(_, _, _, _, _)
push_entries(v, entries, source, base, seen_links) ==
    IF entries = <<>> THEN v
    ELSE push_entries(PushEntry(v, Head(entries), source, base, seen_links),
                      Tail(entries), source, base, seen_links)

(* ---------------------------- sort and dedup --------------------------- *)
\* all.sort_by(|a, b| a.link.cmp(&b.link)) is a stable sort
\* an insertion that puts a story before the stories of the same link
RECURSIVE InsertBeforeEqual(_, _)
InsertBeforeEqual(sorted, s) ==
    IF sorted = <<>> THEN <<s>>
    ELSE IF ~StrLess(Head(sorted).link, s.link) THEN <<s>> \o sorted
    ELSE <<Head(sorted)>> \o InsertBeforeEqual(Tail(sorted), s)

RECURSIVE InsertByLink(_, _)
InsertByLink(sorted, s) ==
    IF sorted = <<>> THEN <<s>>
    ELSE IF StrLess(s.link, Head(sorted).link) THEN <<s>> \o sorted
    ELSE <<Head(sorted)>> \o InsertByLink(Tail(sorted), s)

\* a list left in the order it came in
Unsorted(v) == v

RECURSIVE SortByLink(_)
SortByLink(v) ==
    IF v = <<>> THEN <<>>
    ELSE InsertByLink(SortByLink(SubSeq(v, 1, Len(v) - 1)), v[Len(v)])

\* a dedup that keeps the last of consecutive equal links
RECURSIVE DedupKeepLast(_)
DedupKeepLast(v) ==
    IF Len(v) <= 1 THEN v
    ELSE LET d == DedupKeepLast(SubSeq(v, 1, Len(v) - 1))
         IN  IF v[Len(v)].link = d[Len(d)].link
             THEN Append(SubSeq(d, 1, Len(d) - 1), v[Len(v)])
             ELSE Append(d, v[Len(v)])

\* a dedup that compares whole stories, as Vec::dedup does
RECURSIVE DedupWholeStory(_)
DedupWholeStory(v) ==
    IF Len(v) <= 1 THEN v
    ELSE LET d == DedupWholeStory(SubSeq(v, 1, Len(v) - 1))
         IN  IF v[Len(v)] = d[Len(d)] THEN d ELSE Append(d, v[Len(v)])

\* all.dedup_by(|a, b| a.link == b.link): of consecutive equal links the first stays
RECURSIVE DedupByLink(_)
DedupByLink(v) ==
    IF Len(v) <= 1 THEN v
    ELSE LET d == DedupByLink(SubSeq(v, 1, Len(v) - 1))
         IN  IF v[Len(v)].link = d[Len(d)].link THEN d ELSE Append(d, v[Len(v)])

\* lines 78-80 of collect_stories
SortAndDedup(v) == DedupByLink(SortByLink(v))

\* max_feed_bytes()
max_feed_bytes == 5 * 1024 * 1024

\* a size test that also rejects a payload of exactly the cap
AtLeastCap(len) == len >= max_feed_bytes

\* the size tests of collect_stories (bytes.len() > max, total > max)
TooLarge(len) == len > max_feed_bytes

\* buf.len() after the buf.clear() that follows an oversize chunk
BufAfterOverflow(b) == 0

(* ----------------------- grouping and labels ---------------------------- *)
Min(a, b) == IF a < b THEN a ELSE b
Max(a, b) == IF a > b THEN a ELSE b

\* str::to_uppercase on the configured names
to_uppercase(name) ==
    CASE name = "bbc" -> "BBC"
      [] name = "Wire" -> "WIRE"
      [] OTHER -> name

\* enum Item { Header(String), Story(String, usize) }
HeaderItem(source) == [kind |-> "Header", source |-> source, idx |-> 0]
StoryItem(source, idx) == [kind |-> "Story", source |-> source, idx |-> idx]

\* "== {SOURCE} == ({count} entries)" and "  - [NEW] {title}" / "  - {title}"
HeaderLabel(source, count) ==
    [kind |-> "header", text |-> to_uppercase(source), count |-> count, new |-> FALSE]
EntryLabel(st) ==
    [kind |-> "entry", text |-> st.title, count |-> 0, new |-> st.is_new]

\* items.iter().take(10)
MenuCap == 10

\* groups that hold no more stories than a header shows
GroupFirstTen(stories) ==
    [src \in {stories[i].source : i \in 1..Len(stories)} |->
        LET g == SelectSeq(stories, LAMBDA st : st.source = src)
        IN  SubSeq(g, 1, Min(Len(g), MenuCap))]

\* by_source.entry(s.source).or_default().push(s), for every story in order
GroupBySource(stories) ==
    [src \in {stories[i].source : i \in 1..Len(stories)} |->
        SelectSeq(stories, LAMBDA st : st.source = src)]

EmptyMenu == [labels |-> <<>>, index_map |-> <<>>, header_indices |-> <<>>]

\* rows of one source whose header index counts from 1
PushGroupOneBased(m, source, items) ==
    LET shown == Min(Len(items), MenuCap)
    IN  [labels |-> m.labels \o <<HeaderLabel(source, Len(items))>>
                        \o [k \in 1..shown |-> EntryLabel(items[k])],
         index_map |-> m.index_map \o <<HeaderItem(source)>>
                        \o [k \in 1..shown |-> StoryItem(source, k - 1)],
         header_indices |-> Append(m.header_indices, Len(m.labels) + 1)]

\* the rows of one source: its header, then its first MenuCap stories
PushGroup(m, source, items) ==
    LET shown == Min(Len(items), MenuCap)
    IN  [labels |-> m.labels \o <<HeaderLabel(source, Len(items))>>
                        \o [k \in 1..shown |-> EntryLabel(items[k])],
         index_map |-> m.index_map \o <<HeaderItem(source)>>
                        \o [k \in 1..shown |-> StoryItem(source, k - 1)],
         header_indices |-> Append(m.header_indices, Len(m.labels))]

\* the loop over by_source for the sources no feed names, in the given order
RECURSIVE PushRemaining(_, _, _)
PushRemaining(m, order, groups) ==
    IF order = <<>> THEN m
    ELSE PushRemaining(PushGroup(m, Head(order), groups[Head(order)]), Tail(order), groups)

\* groups in the byte order of the names, whatever the configuration says
PushInNameOrder(m, fs, groups) ==
    PushRemaining(m, SelectSeq(<<"Wire", "bbc">>, LAMBDA n : n \in DOMAIN groups), groups)

\* the loop over cfg.feeds: a group for every feed whose name has stories
RECURSIVE PushConfigured(_, _, _)
PushConfigured(m, fs, groups) ==
    IF fs = <<>> THEN m
    ELSE PushConfigured(
            IF Head(fs).name \in DOMAIN groups
            THEN PushGroup(m, Head(fs).name, groups[Head(fs).name])
            ELSE m,
            Tail(fs), groups)

\* the orders a HashMap can iterate the names of `names` in
Orders(names) ==
    {o \in [1..Cardinality(names) -> names] : \A i, j \in DOMAIN o : i # j => o[i] # o[j]}

(* ------------------------- inputs of the model ------------------------- *)
UrlA == MkUrl("http", "x.com", <<"p", "">>)
UrlB == MkUrl("https", "x.com", <<"p", "feed">>)
Feed(name, isFile, url) == [name |-> name, isFile |-> isFile, url |-> url]

\* configured feeds: local files and remote URLs, names may repeat
FeedChoices ==
    { Feed("bbc", TRUE, NoUrl), Feed("bbc", FALSE, UrlA), Feed("Wire", FALSE, UrlB) }

\* the configured list: distinct feeds in any order
FeedLists ==
    UNION { { fs \in [1..n -> FeedChoices] : \A i, j \in 1..n : fs[i] = fs[j] => i = j }
            : n \in 0..MaxFeeds }

LinkXA == IntoString(MkUrl("http", "x.com", <<"a">>))
LinkSXA == IntoString(MkUrl("https", "x.com", <<"a">>))

\* contents of the seen-store when the program starts
SeenChoices == { {}, {LinkSXA} }

\* entries a parsed feed can hold
SampleEntries ==
    { Entry("t1", <<Link("", Abs(FALSE, "http", "x.com", <<"a">>))>>),
      Entry("t2", <<Link("enclosure", Abs(FALSE, "ftp", "x.com", <<"a">>)),
                    Link("alternate", Abs(TRUE, "HTTPS", "x.com", <<"a">>))>>),
      Entry(NoTitle, <<Link("", Rel(TRUE, <<"a">>))>>),
      Entry("t1", <<Link("", Abs(FALSE, "ftp", "x.com", <<"a">>))>>),
      Entry("t1", <<>>) }

EntrySeqs(k) == UNION {[1..n -> SampleEntries] : n \in 0..k}

\* sizes of a local file, of one chunk of a response body
FileSizes == {0, 1, max_feed_bytes, max_feed_bytes + 1}
ChunkSizes == {1, max_feed_bytes}

(* ------------------------------- state --------------------------------- *)
VARIABLES
    feeds,      \* cfg.feeds
    history,    \* SeenStories.seen_links
    all,        \* collect_stories: the merged Vec<Story>
    pc,         \* position in collect_stories / run
    fi,         \* index of the feed the for loop is at (1-based)
    total,      \* bytes of the current payload counted so far (bytes.len(), total)
    buf,        \* bytes of the current payload held for the parser (buf.len())
    chunks,     \* chunks read from the current response
    last,       \* what ended the handling of the latest feed, and the size it saw
    log,        \* per handled feed: whether it was parsed, and the entries parsed
    merged,     \* the merged list as it was before the sort and dedup
    returned,   \* the value collect_stories returned
    story_links,    \* run: the links of the stories, kept for marking
    by_source,      \* news_menu: the stories of each source
    labels,         \* news_menu: the label of each row
    index_map,      \* news_menu: the Item of each row
    header_indices, \* news_menu: the rows that are headers
    mode,       \* the menu on screen: "idle", "first", "arrow", "typed", "resolved"
    nItems,     \* items.len() of the menu on screen
    dflt,       \* its default: Option<usize>
    hidx,       \* its header_indices: Option<&[usize]>
    hasHeader,  \* whether cfg.header is set
    sel,        \* arrow_select: the selected row
    top,        \* arrow_select: the first visible row
    maxVisible, \* arrow_select: max_visible of the latest render
    key,        \* the key read last
    initText,   \* the text the line editor starts with
    line,       \* the line the line editor returned
    cur,        \* the source whose sub-menu is on screen
    result,     \* what the menu returned
    candidate,  \* normalize_link: its first argument
    base,       \* normalize_link: its second argument
    normalized, \* normalize_link: its result
    opened,     \* the call of open_url made by the latest step, with its outcome
    exit,       \* how the process ended: "running" until it has
    saves,      \* calls of history.save()
    text,       \* an untrusted string: a feed name or a story title
    written     \* the latest text written to the terminal for it, and where

ingestVars == <<feeds, history, all, pc, fi, total, buf, chunks, last, log, merged, returned>>
menuVars == <<story_links, by_source, labels, index_map, header_indices>>
navVars == <<mode, nItems, dflt, hidx, hasHeader, sel, top, maxVisible, key, initText, line, cur,
             result>>
fnVars == <<candidate, base, normalized, text, written>>
procVars == <<opened, exit, saves>>
vars == <<ingestVars, menuVars, navVars, fnVars, procVars>>

NoLast == [outcome |-> "none", size |-> 0]
Outcome(what, size) == [outcome |-> what, size |-> size]
NotReturned == [ok |-> FALSE, stories |-> <<>>]

RECURSIVE SumLen(_)
SumLen(l) == IF l = <<>> THEN 0 ELSE Len(Head(l).entries) + SumLen(Tail(l))

\* entries the parser may still give within MaxEntries
Budget == MaxEntries - SumLen(log)

NoIndex == [some |-> FALSE, val |-> 0]
SomeIndex(i) == [some |-> TRUE, val |-> i]
NoResult == [kind |-> "none", idx |-> 0, msg |-> ""]

\* no menu has been built
NoMenu ==
    /\ story_links = <<>>
    /\ by_source = <<>>
    /\ labels = <<>>
    /\ index_map = <<>>
    /\ header_indices = <<>>

\* no menu is on screen
NoPrompt ==
    /\ mode = "idle"
    /\ nItems = 0
    /\ dflt = NoIndex
    /\ hidx = None
    /\ hasHeader = FALSE
    /\ sel = 0
    /\ top = 0
    /\ maxVisible = 0
    /\ key = ""
    /\ initText = ""
    /\ line = <<>>
    /\ cur = ""
    /\ result = NoResult

\* no story has been opened, the process runs, nothing has been saved
NoOpen == [called |-> FALSE, link |-> <<>>, ok |-> FALSE]
NoProcess ==
    /\ opened = NoOpen
    /\ exit = "running"
    /\ saves = 0

\* normalize_link is not being applied on its own
NoCall ==
    /\ candidate = Blank(FALSE)
    /\ base = None
    /\ normalized = None

\* nothing has been written for an untrusted string
NoWritten == [where |-> "none", field |-> <<>>]
NoLabel ==
    /\ text = <<>>
    /\ written = NoWritten

\* collect_stories has not been called
NoIngest ==
    /\ feeds = <<>>
    /\ history = {}
    /\ all = <<>>
    /\ pc = "idle"
    /\ fi = 1
    /\ total = 0
    /\ buf = 0
    /\ chunks = 0
    /\ last = NoLast
    /\ log = <<>>
    /\ merged = <<>>
    /\ returned = NotReturned

InitIngest ==
    /\ NoMenu /\ NoPrompt /\ NoCall /\ NoProcess /\ NoLabel
    /\ feeds \in FeedLists
    /\ history \in SeenChoices
    /\ all = <<>>
    /\ pc = "fetch"
    /\ fi = 1
    /\ total = 0
    /\ buf = 0
    /\ chunks = 0
    /\ last = NoLast
    /\ log = <<>>
    /\ merged = <<>>
    /\ returned = NotReturned

AtFeed == pc = "fetch" /\ fi <= Len(feeds)

\* the end of collect_stories (sort, dedup, Ok(all)), run taking the links, and
\* news_menu building its lists, up to its first prompt
Complete(v) ==
    /\ merged' = v
    /\ all' = SortAndDedup(v)
    /\ returned' = [ok |-> TRUE, stories |-> all']
    /\ story_links' = [i \in 1..Len(all') |-> all'[i].link]
    /\ by_source' = GroupBySource(all')
    /\ \E order \in Orders(DOMAIN by_source' \ {feeds[i].name : i \in 1..Len(feeds)}) :
          LET m == PushRemaining(PushConfigured(EmptyMenu, feeds, by_source'), order, by_source')
          IN  /\ labels' = m.labels
              /\ index_map' = m.index_map
              /\ header_indices' = m.header_indices
    /\ pc' = "menu"

\* the for loop takes its next feed, or ends
NextFeed(v) ==
    /\ fi' = fi + 1
    /\ total' = 0 /\ buf' = 0 /\ chunks' = 0
    /\ IF fi < Len(feeds)
       THEN /\ all' = v
            /\ pc' = "fetch"
            /\ UNCHANGED <<merged, returned, menuVars>>
       ELSE Complete(v)

\* a failure that throws away what the other feeds gave
SkipAndClear(what, size) ==
    /\ last' = Outcome(what, size)
    /\ log' = Append(log, [ok |-> FALSE, entries |-> <<>>])
    /\ NextFeed(<<>>)
    /\ UNCHANGED <<navVars, fnVars, procVars, feeds, history>>

\* the feed contributes nothing: `continue`, or a match arm that only reports
Skip(what, size) ==
    /\ last' = Outcome(what, size)
    /\ log' = Append(log, [ok |-> FALSE, entries |-> <<>>])
    /\ NextFeed(all)
    /\ UNCHANGED <<navVars, fnVars, procVars, feeds, history>>

\* the base push_entries gets: None for a file, Url::parse(&f.url).ok() otherwise
BaseOf(f) == IF f.isFile THEN None ELSE Some(f.url)

\* fs::read failed
FileReadErr ==
    /\ AtFeed /\ feeds[fi].isFile
    /\ Skip("read_err", 0)

\* the file was read and is larger than the cap: report, continue
FileTooLarge ==
    /\ AtFeed /\ feeds[fi].isFile
    /\ \E size \in FileSizes : TooLarge(size) /\ Skip("too_large", size)

\* the file was read and is within the cap: its bytes go to the parser
FileRead ==
    /\ AtFeed /\ feeds[fi].isFile
    /\ \E size \in FileSizes :
          /\ ~TooLarge(size)
          /\ total' = size
          /\ buf' = size
    /\ pc' = "parse"
    /\ last' = Outcome("complete", total')
    /\ UNCHANGED <<menuVars, navVars, fnVars, procVars, feeds, history, all, fi, chunks, log, merged, returned>>

\* client.get(..).send() failed
SendErr ==
    /\ AtFeed /\ ~feeds[fi].isFile
    /\ Skip("fetch_err", 0)

\* the response arrived: start streaming its body
SendOk ==
    /\ AtFeed /\ ~feeds[fi].isFile
    /\ pc' = "stream"
    /\ total' = 0 /\ buf' = 0 /\ chunks' = 0
    /\ last' = NoLast
    /\ UNCHANGED <<menuVars, navVars, fnVars, procVars, feeds, history, all, fi, log, merged, returned>>

\* a chunk that keeps the total within the cap is buffered
ChunkFits ==
    /\ pc = "stream" /\ chunks < MaxChunks
    /\ \E c \in ChunkSizes :
          /\ ~TooLarge(total + c)
          /\ total' = total + c
          /\ buf' = buf + c
    /\ chunks' = chunks + 1
    /\ UNCHANGED <<menuVars, navVars, fnVars, procVars, feeds, history, all, pc, fi, last, log, merged, returned>>

\* a chunk that takes the total over the cap: report, clear, break
ChunkOverflows ==
    /\ pc = "stream" /\ chunks < MaxChunks
    /\ \E c \in ChunkSizes :
          /\ TooLarge(total + c)
          /\ total' = total + c
    /\ buf' = BufAfterOverflow(buf)
    /\ last' = Outcome("too_large", total')
    /\ pc' = "after"
    /\ chunks' = chunks + 1
    /\ UNCHANGED <<menuVars, navVars, fnVars, procVars, feeds, history, all, fi, log, merged, returned>>

\* the stream gave an error: report, clear, break
ChunkErr ==
    /\ pc = "stream"
    /\ buf' = 0
    /\ last' = Outcome("body_err", 0)
    /\ pc' = "after"
    /\ UNCHANGED <<menuVars, navVars, fnVars, procVars, feeds, history, all, fi, total, chunks, log, merged, returned>>

\* the stream ended
StreamEnd ==
    /\ pc = "stream"
    /\ last' = Outcome("complete", total)
    /\ pc' = "after"
    /\ UNCHANGED <<menuVars, navVars, fnVars, procVars, feeds, history, all, fi, total, buf, chunks, log, merged, returned>>

\* if buf.is_empty() { continue; }
AfterEmpty ==
    /\ pc = "after" /\ buf = 0
    /\ Skip(IF last.outcome = "complete" THEN "empty_body" ELSE last.outcome, last.size)

\* the buffer is not empty: its bytes go to the parser
AfterNonEmpty ==
    /\ pc = "after" /\ buf # 0
    /\ pc' = "parse"
    /\ UNCHANGED <<menuVars, navVars, fnVars, procVars, feeds, history, all, fi, total, buf, chunks, last, log, merged, returned>>

\* parser::parse gave Err: report
ParseErr ==
    /\ pc = "parse"
    /\ Skip("parse_err", 0)

\* parser::parse gave Ok(feed): push_entries, then the next feed
ParseOk ==
    /\ pc = "parse" /\ buf # 0
    /\ \E entries \in EntrySeqs(Budget) :
          /\ log' = Append(log, [ok |-> TRUE, entries |-> entries])
          /\ NextFeed(push_entries(all, entries, feeds[fi].name, BaseOf(feeds[fi]), history))
    /\ last' = Outcome("parsed", 0)
    /\ UNCHANGED <<navVars, fnVars, procVars, feeds, history>>

\* no feed is configured: the loop does not run
NoFeeds ==
    /\ pc = "fetch" /\ feeds = <<>>
    /\ Complete(all)
    /\ UNCHANGED <<navVars, fnVars, procVars, feeds, history, fi, total, buf, chunks, last, log>>

NextIngest ==
    \/ FileReadErr \/ FileTooLarge \/ FileRead
    \/ SendErr \/ SendOk
    \/ ChunkFits \/ ChunkOverflows \/ ChunkErr \/ StreamEnd
    \/ AfterEmpty \/ AfterNonEmpty
    \/ ParseErr \/ ParseOk
    \/ NoFeeds

SpecIngest == InitIngest /\ [][NextIngest]_vars


(* --------------------------- the menu engine --------------------------- *)
\* enum MenuChoice, and the Err of a Result<MenuChoice>
IndexChoice(i) == [kind |-> "Index", idx |-> i, msg |-> ""]
QuitChoice == [kind |-> "Quit", idx |-> 0, msg |-> ""]
BackChoice == [kind |-> "Back", idx |-> 0, msg |-> ""]
ErrChoice(msg) == [kind |-> "Err", idx |-> 0, msg |-> msg]

\* usize::saturating_sub
saturating_sub(a, b) == IF a > b THEN a - b ELSE 0

\* keys term.read_key() gives
NavKeys == {"ArrowUp", "ArrowDown", "Home", "End", "PageUp", "PageDown"}
QuitKeys == {"q", "Q"}
BackKeys == {"b", "B"}
\* Key::Char(c) of other characters; "^A" is a control character
CharKeys == {"1", "^A"}
\* keys that are no Key::Char and have no arm of their own in the first match
PlainKeys == {"Tab", "Escape"}
is_control(c) == c = "^A"

\* the first match with Tab among the navigation keys
IsNavKeyOrTab(k) == k \in NavKeys \cup {"Tab"}

\* the first arm of the match on the first key
IsNavKey(k) == k \in NavKeys

\* str::trim
Whitespace == {" "}
RECURSIVE TrimStart(_)
TrimStart(s) ==
    IF s # <<>> /\ Head(s) \in Whitespace THEN TrimStart(Tail(s)) ELSE s
RECURSIVE TrimEnd(_)
TrimEnd(s) ==
    IF s # <<>> /\ s[Len(s)] \in Whitespace THEN TrimEnd(SubSeq(s, 1, Len(s) - 1)) ELSE s
\* a trim that leaves the text as typed
NoTrim(s) == s

Trim(s) == TrimEnd(TrimStart(s))

Digits == {"0", "1", "2", "3", "4", "5", "6", "7", "8", "9"}
DigitVal(c) ==
    CASE c = "0" -> 0 [] c = "1" -> 1 [] c = "2" -> 2 [] c = "3" -> 3 [] c = "4" -> 4
      [] c = "5" -> 5 [] c = "6" -> 6 [] c = "7" -> 7 [] c = "8" -> 8 [] OTHER -> 9

RECURSIVE DecimalVal(_)
DecimalVal(ds) ==
    IF ds = <<>> THEN 0 ELSE 10 * DecimalVal(SubSeq(ds, 1, Len(ds) - 1)) + DigitVal(ds[Len(ds)])

\* s.parse::<usize>(): an optional "+", then one or more digits (lines are too
\* short to overflow a usize)
ParseUsize(s) ==
    LET ds == IF s # <<>> /\ Head(s) = "+" THEN Tail(s) ELSE s
    IN  IF ds # <<>> /\ \A i \in 1..Len(ds) : ds[i] \in Digits
        THEN [ok |-> TRUE, val |-> DecimalVal(ds)]
        ELSE [ok |-> FALSE, val |-> 0]

\* parse_selection(input, items, default), items.len() = n
parse_selection(input, n, default) ==
    LET s == Trim(input)
    IN  IF s = <<>>
        THEN IF default.some THEN IndexChoice(default.val) ELSE ErrChoice("no selection")
        ELSE IF s \in {<<"q">>, <<"Q">>} THEN QuitChoice
        ELSE IF s \in {<<"b">>, <<"B">>} THEN BackChoice
        ELSE LET idx == ParseUsize(s)
             IN  IF ~idx.ok THEN ErrChoice("invalid selection")
                 ELSE IF idx.val = 0 \/ idx.val > n THEN ErrChoice("out of range")
                 ELSE IndexChoice(idx.val - 1)

\* rows of the terminal, read at every render
RowChoices == {2, 7}

\* max_visible of a render
max_visible(rows, header, n) ==
    LET reserved == 2 + (IF header THEN 1 ELSE 0)
        fit == saturating_sub(rows, reserved)
        atLeast == IF fit < 3 THEN 3 ELSE fit
    IN  IF atLeast > n THEN n ELSE atLeast

\* a render that leaves the window where it is
KeepTop(s, t, mv) == t

\* a viewport step that makes one test only
ScrollOnce(s, t, mv) ==
    IF s < t THEN s ELSE IF s >= t + mv THEN s + 1 - mv ELSE t

\* "keep selection in viewport"
ScrollTo(s, t, mv) ==
    LET t1 == IF s < t THEN s ELSE t
    IN  IF s >= t1 + mv THEN s + 1 - mv ELSE t1

\* a start at the last row, as if End had been applied
LastRow(default, n) == saturating_sub(n, 1)

\* let mut sel = default.unwrap_or(0).min(items.len().saturating_sub(1))
InitialSel(default, n) == Min(IF default.some THEN default.val ELSE 0, saturating_sub(n, 1))

\* a step of the whole window
FullPage(mv) == mv

\* let step = max_visible.saturating_sub(1).max(1)
PageStep(mv) == Max(saturating_sub(mv, 1), 1)

\* the first header at or after the row
RECURSIVE FindNextOrSame(_, _, _)
FindNextOrSame(hv, s, next) ==
    IF hv = <<>> THEN next
    ELSE IF Head(hv) >= s THEN Head(hv)
    ELSE FindNextOrSame(Tail(hv), s, next)

\* the for loop of the Tab arm: the first header strictly greater than sel
RECURSIVE FindNext(_, _, _)
FindNext(hv, s, next) ==
    IF hv = <<>> THEN next
    ELSE IF Head(hv) > s THEN Head(hv)
    ELSE FindNext(Tail(hv), s, next)

\* the Tab arm
TabTarget(h, s, n) ==
    IF h.some /\ h.val # <<>>
    THEN Min(FindNext(h.val, s, h.val[1]), saturating_sub(n, 1))
    ELSE s

(* ------------------------ one menu on the screen ----------------------- *)
\* the configuration behind the navigated menus
NavFeeds == <<Feed("bbc", TRUE, NoUrl), Feed("Wire", FALSE, UrlB)>>

\* the i-th link in sort order
NavLink(i) == <<"http", "x.com">> \o [j \in 1..i |-> "a"]

\* ingestion results: sorted by link, one story per link, any sources
NavStoryLists ==
    UNION { { [i \in 1..n |-> [title |-> "t1", link |-> NavLink(i), source |-> srcs[i],
                               is_new |-> TRUE]]
              : srcs \in [1..n -> {"bbc", "Wire"}] }
            : n \in 0..MaxStories }

\* lines the line editor can return
Alphabet == {" ", "q", "B", "0", "1", "+", "x"}
Lines == UNION {[1..n -> Alphabet] : n \in 0..MaxLine}

\* a menu has been rendered and waits for its first key: the main menu of
\* main, the menu of news_menu, or the menu of source_menu
InitNav ==
    /\ NoCall /\ NoProcess /\ NoLabel
    /\ feeds = NavFeeds
    /\ history = {}
    /\ fi = 1
    /\ total = 0
    /\ buf = 0
    /\ chunks = 0
    /\ last = NoLast
    /\ log = <<>>
    /\ pc \in {"main_menu", "news_menu", "source_menu"}
    /\ all \in NavStoryLists
    /\ merged = all
    /\ IF pc = "main_menu"
       THEN /\ all = <<>>
            /\ returned = NotReturned
            /\ NoMenu
       ELSE /\ returned = [ok |-> TRUE, stories |-> all]
            /\ story_links = [i \in 1..Len(all) |-> all[i].link]
            /\ by_source = GroupBySource(all)
            /\ labels = PushConfigured(EmptyMenu, feeds, by_source).labels
            /\ index_map = PushConfigured(EmptyMenu, feeds, by_source).index_map
            /\ header_indices = PushConfigured(EmptyMenu, feeds, by_source).header_indices
    /\ cur \in IF pc = "source_menu" THEN DOMAIN by_source ELSE {""}
    /\ nItems = CASE pc = "main_menu" -> 2
                  [] pc = "news_menu" -> Len(labels)
                  [] OTHER -> Len(by_source[cur])
    /\ dflt = IF pc = "main_menu" THEN SomeIndex(0) ELSE NoIndex
    /\ hidx = IF pc = "news_menu" THEN Some(header_indices) ELSE None
    /\ hasHeader \in BOOLEAN
    /\ mode = "first"
    /\ sel = 0
    /\ top = 0
    /\ maxVisible = 0
    /\ key = ""
    /\ initText = ""
    /\ line = <<>>
    /\ result = NoResult

\* what no key changes
Shown == UNCHANGED <<ingestVars, menuVars, fnVars, procVars, nItems, dflt, hidx, hasHeader, cur>>

\* return from the menu
Resolve(choice) ==
    /\ mode' = "resolved"
    /\ result' = choice
    /\ Shown

\* the head of the loop of arrow_select with sel = s: max_visible, the viewport
Render(s) ==
    /\ sel' = s
    /\ \E rows \in RowChoices :
          /\ maxVisible' = max_visible(rows, hasHeader, nItems)
          /\ top' = ScrollTo(s, top, maxVisible')
    /\ mode' = "arrow"
    /\ UNCHANGED <<initText, line, result>>
    /\ Shown

\* first key a navigation key: arrow_select starts at the default, or at 0
FirstNav ==
    /\ mode = "first"
    /\ \E k \in NavKeys \cup PlainKeys : IsNavKey(k) /\ key' = k
    /\ Render(InitialSel(dflt, nItems))

FirstQuit ==
    /\ mode = "first"
    /\ key' \in QuitKeys
    /\ Resolve(QuitChoice)
    /\ UNCHANGED <<sel, top, maxVisible, initText, line>>

FirstBack ==
    /\ mode = "first"
    /\ key' \in BackKeys
    /\ Resolve(BackChoice)
    /\ UNCHANGED <<sel, top, maxVisible, initText, line>>

FirstEnter ==
    /\ mode = "first"
    /\ key' = "Enter"
    /\ Resolve(IF dflt.some THEN IndexChoice(dflt.val) ELSE ErrChoice("no selection"))
    /\ UNCHANGED <<sel, top, maxVisible, initText, line>>

\* first key another character: the line editor opens, holding it unless it
\* is a control character
FirstChar ==
    /\ mode = "first"
    /\ key' \in CharKeys
    /\ initText' = IF is_control(key') THEN "" ELSE key'
    /\ mode' = "typed"
    /\ UNCHANGED <<sel, top, maxVisible, line, result>>
    /\ Shown

\* first key any other key: the line editor opens empty
FirstOther ==
    /\ mode = "first"
    /\ \E k \in NavKeys \cup PlainKeys : ~IsNavKey(k) /\ key' = k
    /\ mode' = "typed"
    /\ UNCHANGED <<sel, top, maxVisible, initText, line, result>>
    /\ Shown

\* interact_text returned a line: parse_selection
TypedLine ==
    /\ mode = "typed"
    /\ line' \in Lines
    /\ Resolve(parse_selection(line', nItems, dflt))
    /\ UNCHANGED <<sel, top, maxVisible, key, initText>>

ArrowUp ==
    /\ mode = "arrow"
    /\ key' = "ArrowUp"
    /\ Render(IF sel > 0 THEN sel - 1 ELSE sel)

ArrowDown ==
    /\ mode = "arrow"
    /\ key' = "ArrowDown"
    /\ Render(IF sel + 1 < nItems THEN sel + 1 ELSE sel)

ArrowHome ==
    /\ mode = "arrow"
    /\ key' = "Home"
    /\ Render(0)

ArrowEnd ==
    /\ mode = "arrow"
    /\ key' = "End"
    /\ Render(IF nItems # 0 THEN nItems - 1 ELSE sel)

ArrowPageUp ==
    /\ mode = "arrow"
    /\ key' = "PageUp"
    /\ Render(saturating_sub(sel, PageStep(maxVisible)))

ArrowPageDown ==
    /\ mode = "arrow"
    /\ key' = "PageDown"
    /\ Render(Min(sel + PageStep(maxVisible), saturating_sub(nItems, 1)))

ArrowTab ==
    /\ mode = "arrow"
    /\ key' = "Tab"
    /\ Render(TabTarget(hidx, sel, nItems))

ArrowEnter ==
    /\ mode = "arrow"
    /\ key' = "Enter"
    /\ Resolve(IndexChoice(sel))
    /\ UNCHANGED <<sel, top, maxVisible, initText, line>>

ArrowQuit ==
    /\ mode = "arrow"
    /\ key' \in QuitKeys
    /\ Resolve(QuitChoice)
    /\ UNCHANGED <<sel, top, maxVisible, initText, line>>

ArrowBack ==
    /\ mode = "arrow"
    /\ key' \in BackKeys \cup {"Escape"}
    /\ Resolve(BackChoice)
    /\ UNCHANGED <<sel, top, maxVisible, initText, line>>

\* any other key: nothing but the next render
ArrowIgnored ==
    /\ mode = "arrow"
    /\ key' \in CharKeys
    /\ Render(sel)

NextNav ==
    \/ FirstNav \/ FirstQuit \/ FirstBack \/ FirstEnter \/ FirstChar \/ FirstOther
    \/ TypedLine
    \/ ArrowUp \/ ArrowDown \/ ArrowHome \/ ArrowEnd \/ ArrowPageUp \/ ArrowPageDown
    \/ ArrowTab \/ ArrowEnter \/ ArrowQuit \/ ArrowBack \/ ArrowIgnored

SpecNav == InitNav /\ [][NextNav]_vars

(* ------------------------ the process: main, run ----------------------- *)
\* a feed with more entries than a header shows, the longest link first
BigFeed ==
    [i \in 1..(MenuCap + 1) |->
        Entry("t2", <<Link("", Abs(FALSE, "http", "y.com", [j \in 1..(MenuCap + 2 - i) |-> "a"]))>>)]

\* what handling one feed can give during a session: a failure, or parsed entries
Failed == [ok |-> FALSE, entries |-> <<>>]
Parsed(entries) == [ok |-> TRUE, entries |-> entries]
SessionOutputs ==
    << { Failed,
         Parsed(<<Entry(NoTitle, <<Link("", Rel(TRUE, <<"a">>))>>),
                  Entry("t1", <<Link("", Abs(FALSE, "http", "x.com", <<"a">>))>>)>>) },
       { Failed, Parsed(BigFeed) } >>

\* the loop of collect_stories over the feeds, given what each feed gave
RECURSIVE Gather(_, _, _, _)
Gather(fs, outs, seen_links, k) ==
    IF k = 0 THEN <<>>
    ELSE IF outs[k].ok
    THEN push_entries(Gather(fs, outs, seen_links, k - 1), outs[k].entries, fs[k].name,
                      BaseOf(fs[k]), seen_links)
    ELSE Gather(fs, outs, seen_links, k - 1)

\* for link in story_links { history.mark_as_seen(&link) }
MarkHead(seen_links, links) ==
    IF links = <<>> THEN seen_links ELSE mark_as_seen(seen_links, Head(links))

RECURSIVE MarkAll(_, _)
MarkAll(seen_links, links) ==
    IF links = <<>> THEN seen_links
    ELSE MarkAll(mark_as_seen(seen_links, Head(links)), Tail(links))

\* open_url(link): the default opener, else firefox, else nothing; the caller
\* drops the Result
OpenOutcomes == {"default", "firefox", "none"}
OpenBlank(link, how) == [called |-> TRUE, link |-> <<>>, ok |-> how # "none"]

Open(link, how) == [called |-> TRUE, link |-> link, ok |-> how # "none"]

\* prompt_menu / prompt_index has rendered n rows and waits for the first key
Prompt(n, d, h) ==
    /\ mode' = "first"
    /\ nItems' = n
    /\ dflt' = d
    /\ hidx' = h
    /\ sel' = 0
    /\ top' = 0
    /\ maxVisible' = 0
    /\ key' = ""
    /\ initText' = ""
    /\ line' = <<>>
    /\ result' = NoResult

\* the process starts: the main menu is on screen
InitSession ==
    /\ NoMenu /\ NoCall /\ NoProcess /\ NoLabel
    /\ feeds = NavFeeds
    /\ history \in SeenChoices
    /\ all = <<>>
    /\ pc = "main_menu"
    /\ fi = 1
    /\ total = 0
    /\ buf = 0
    /\ chunks = 0
    /\ last = NoLast
    /\ log = <<>>
    /\ merged = <<>>
    /\ returned = NotReturned
    /\ mode = "first"
    /\ nItems = 2
    /\ dflt = SomeIndex(0)
    /\ hidx = None
    /\ hasHeader \in BOOLEAN
    /\ sel = 0
    /\ top = 0
    /\ maxVisible = 0
    /\ key = ""
    /\ initText = ""
    /\ line = <<>>
    /\ cur = ""
    /\ result = NoResult

Resolved(where) == pc = where /\ mode = "resolved"

\* the locals of run and news_menu are gone
Dropped ==
    /\ all' = <<>>
    /\ log' = <<>>
    /\ merged' = <<>>
    /\ returned' = NotReturned
    /\ story_links' = <<>>
    /\ by_source' = <<>>
    /\ labels' = <<>>
    /\ index_map' = <<>>
    /\ header_indices' = <<>>

\* the process ends, its locals gone; clean ends have tried history.save() once
Ended(how) ==
    /\ pc' = "exit"
    /\ exit' = how
    /\ saves' = IF how = "ok" THEN saves + 1 ELSE saves
    /\ mode' = "idle"
    /\ nItems' = 0
    /\ dflt' = NoIndex
    /\ hidx' = None
    /\ sel' = 0
    /\ top' = 0
    /\ maxVisible' = 0
    /\ key' = ""
    /\ initText' = ""
    /\ line' = <<>>
    /\ cur' = ""
    /\ result' = NoResult
    /\ Dropped
    /\ UNCHANGED <<fnVars, hasHeader, opened, feeds, history, fi, total, buf, chunks, last>>

\* prompt_menu(..)? gave Err: main returns it
MainErr ==
    /\ Resolved("main_menu") /\ result.kind = "Err"
    /\ Ended("error")

\* MenuChoice::Back => break, then save
MainBack ==
    /\ Resolved("main_menu") /\ result.kind = "Back"
    /\ Ended("ok")

\* MenuChoice::Index(1) => break, then save
MainQuitItem ==
    /\ Resolved("main_menu") /\ result.kind = "Index" /\ result.idx = 1
    /\ Ended("ok")

\* _ => {}: the loop shows the main menu again
MainAgain ==
    /\ Resolved("main_menu")
    /\ \/ result.kind = "Quit"
       \/ result.kind = "Index" /\ result.idx > 1
    /\ Prompt(2, SomeIndex(0), None)
    /\ UNCHANGED <<ingestVars, menuVars, fnVars, procVars, hasHeader, cur>>

\* MenuChoice::Index(0): news::run fetches, news_menu builds its lists and
\* shows the menu
MainNews ==
    /\ Resolved("main_menu") /\ result.kind = "Index" /\ result.idx = 0
    /\ \E outs \in [1..Len(feeds) -> {Failed} \cup UNION {SessionOutputs[k] : k \in 1..Len(feeds)}] :
          /\ \A k \in 1..Len(feeds) : outs[k] \in SessionOutputs[k]
          /\ log' = outs
          /\ merged' = Gather(feeds, outs, history, Len(feeds))
    /\ all' = SortAndDedup(merged')
    /\ returned' = [ok |-> TRUE, stories |-> all']
    /\ story_links' = [i \in 1..Len(all') |-> all'[i].link]
    /\ by_source' = GroupBySource(all')
    /\ \E order \in Orders(DOMAIN by_source' \ {feeds[i].name : i \in 1..Len(feeds)}) :
          LET m == PushRemaining(PushConfigured(EmptyMenu, feeds, by_source'), order, by_source')
          IN  /\ labels' = m.labels
              /\ index_map' = m.index_map
              /\ header_indices' = m.header_indices
    /\ pc' = "news_menu"
    /\ Prompt(Len(labels'), NoIndex, Some(header_indices'))
    /\ UNCHANGED <<fnVars, procVars, hasHeader, cur, feeds, history, fi, total, buf, chunks, last>>

\* prompt_index(..)? gave Err in news_menu: run and main return it
NewsErr ==
    /\ Resolved("news_menu") /\ result.kind = "Err"
    /\ Ended("error")

\* Back: news_menu and run return, main marks every link, the main menu shows
NewsBack ==
    /\ Resolved("news_menu") /\ result.kind = "Back"
    /\ history' = MarkAll(history, story_links)
    /\ Dropped
    /\ pc' = "main_menu"
    /\ Prompt(2, SomeIndex(0), None)
    /\ UNCHANGED <<fnVars, procVars, hasHeader, cur, feeds, fi, total, buf, chunks, last>>

\* Index(i) of a row that index_map does not have: &index_map[i] panics
NewsPanic ==
    /\ Resolved("news_menu") /\ result.kind = "Index"
    /\ result.idx >= Len(index_map)
    /\ Ended("panic")

\* Index(i) of a Header row: source_menu shows the stories of the source
NewsHeader ==
    /\ Resolved("news_menu") /\ result.kind = "Index"
    /\ result.idx < Len(index_map)
    /\ index_map[result.idx + 1].kind = "Header"
    /\ cur' = index_map[result.idx + 1].source
    /\ pc' = "source_menu"
    /\ Prompt(Len(by_source[cur']), NoIndex, None)
    /\ UNCHANGED <<menuVars, fnVars, procVars, hasHeader, feeds, history, all, fi, total, buf,
                   chunks, last, log, merged, returned>>

\* Index(i) of a Story row: open_url of the story, its Result dropped
NewsStory ==
    /\ Resolved("news_menu") /\ result.kind = "Index"
    /\ result.idx < Len(index_map)
    /\ index_map[result.idx + 1].kind = "Story"
    /\ LET item == index_map[result.idx + 1]
           v == by_source[item.source]
       IN  IF item.idx < Len(v)
           THEN \E how \in OpenOutcomes : opened' = Open(v[item.idx + 1].link, how)
           ELSE opened' = NoOpen
    /\ pc' = "news_opened"
    /\ mode' = "idle"
    /\ UNCHANGED <<menuVars, fnVars, exit, saves, nItems, dflt, hidx, hasHeader, sel, top,
                   maxVisible, key, initText, line, cur, result, feeds, history, all, fi,
                   total, buf, chunks, last, log, merged, returned>>

\* the loop of news_menu shows the menu again
NewsAgain ==
    /\ pc = "news_opened"
    /\ pc' = "news_menu"
    /\ opened' = NoOpen
    /\ Prompt(Len(labels), NoIndex, Some(header_indices))
    /\ UNCHANGED <<menuVars, fnVars, exit, saves, hasHeader, cur, feeds, history, all, fi,
                   total, buf, chunks, last, log, merged, returned>>

\* prompt_index(..)? gave Err in source_menu: news_menu, run and main return it
SourceErr ==
    /\ Resolved("source_menu") /\ result.kind = "Err"
    /\ Ended("error")

\* Back: source_menu returns and the loop of news_menu shows its menu again
SourceBack ==
    /\ Resolved("source_menu") /\ result.kind = "Back"
    /\ pc' = "news_menu"
    /\ cur' = ""
    /\ Prompt(Len(labels), NoIndex, Some(header_indices))
    /\ UNCHANGED <<menuVars, fnVars, procVars, hasHeader, feeds, history, all, fi, total, buf,
                   chunks, last, log, merged, returned>>

\* Index(i): open_url of entries.get(i), its Result dropped
SourceOpen ==
    /\ Resolved("source_menu") /\ result.kind = "Index"
    /\ IF result.idx < Len(by_source[cur])
       THEN \E how \in OpenOutcomes : opened' = Open(by_source[cur][result.idx + 1].link, how)
       ELSE opened' = NoOpen
    /\ pc' = "source_opened"
    /\ mode' = "idle"
    /\ UNCHANGED <<menuVars, fnVars, exit, saves, nItems, dflt, hidx, hasHeader, sel, top,
                   maxVisible, key, initText, line, cur, result, feeds, history, all, fi,
                   total, buf, chunks, last, log, merged, returned>>

\* the loop of source_menu shows the menu again
SourceAgain ==
    /\ pc = "source_opened"
    /\ pc' = "source_menu"
    /\ opened' = NoOpen
    /\ Prompt(Len(by_source[cur]), NoIndex, None)
    /\ UNCHANGED <<menuVars, fnVars, exit, saves, hasHeader, cur, feeds, history, all, fi,
                   total, buf, chunks, last, log, merged, returned>>

\* news_menu and source_menu have no arm for MenuChoice::Quit: the model has
\* no step from a menu of theirs that resolved to Quit
NextSession ==
    \/ NextNav
    \/ MainErr \/ MainBack \/ MainQuitItem \/ MainAgain \/ MainNews
    \/ NewsErr \/ NewsBack \/ NewsPanic \/ NewsHeader \/ NewsStory \/ NewsAgain
    \/ SourceErr \/ SourceBack \/ SourceOpen \/ SourceAgain

SpecSession == InitSession /\ [][NextSession]_vars

(* --------------------- normalize_link on its own ----------------------- *)
UrlF == MkUrl("ftp", "x.com", <<"p", "feed">>)

\* candidate hrefs: absolute URLs of several schemes, relative references,
\* blank text, and text that does not parse
Candidates ==
    { Abs(ws, scheme, host, segs) :
          ws \in BOOLEAN,
          scheme \in {"http", "https", "HTTPS", "ftp", "mailto", "javascript"},
          host \in {"x.com", "y.com"},
          segs \in {<<"a">>, <<"a", "b">>} }
    \cup { Rel(rooted, segs) : rooted \in BOOLEAN, segs \in {<<"a">>, <<"a", "b">>} }
    \cup { Blank(ws) : ws \in BOOLEAN }
    \cup { Malformed }

\* base URLs: none (a local file), or the URL of the feed
Bases == { None, Some(UrlA), Some(UrlB), Some(UrlF) }

InitNormalize ==
    /\ NoMenu /\ NoPrompt /\ NoProcess /\ NoLabel
    /\ feeds = <<>>
    /\ history = {}
    /\ all = <<>>
    /\ pc = "call"
    /\ fi = 1
    /\ total = 0
    /\ buf = 0
    /\ chunks = 0
    /\ last = NoLast
    /\ log = <<>>
    /\ merged = <<>>
    /\ returned = NotReturned
    /\ candidate \in Candidates
    /\ base \in Bases
    /\ normalized = None

\* one call of normalize_link
Normalize ==
    /\ pc = "call"
    /\ normalized' = normalize_link(candidate, base)
    /\ pc' = "return"
    /\ UNCHANGED <<menuVars, navVars, procVars, candidate, base, text, written, feeds, history,
                   all, fi, total, buf, chunks, last, log, merged, returned>>

NextNormalize == Normalize

SpecNormalize == InitNormalize /\ [][NextNormalize]_vars

(* ------------------ untrusted text on the terminal --------------------- *)
\* A text is a sequence of characters, a character its code point.
ESC == 27
DEL == 127

\* the classes of the regex \x1B\[[0-9;?]*[ -/]*[@-~]
IsParam(ch) == ch \in 48..57 \/ ch = 59 \/ ch = 63
IsIntermediate(ch) == ch \in 32..47
IsFinal(ch) == ch \in 64..126

\* the index of the first character at or after i that is not a parameter
RECURSIVE SkipParams(_, _)
SkipParams(t, i) == IF i <= Len(t) /\ IsParam(t[i]) THEN SkipParams(t, i + 1) ELSE i

RECURSIVE SkipIntermediates(_, _)
SkipIntermediates(t, i) ==
    IF i <= Len(t) /\ IsIntermediate(t[i]) THEN SkipIntermediates(t, i + 1) ELSE i

\* the index of the last character of the match of the regex that starts at i,
\* or 0 when none starts there; the classes are disjoint, so the greedy match
\* is the only one
CsiEnd(t, i) ==
    IF t[i] = ESC /\ i + 1 <= Len(t) /\ t[i + 1] = 91
    THEN LET k == SkipIntermediates(t, SkipParams(t, i + 2))
         IN  IF k <= Len(t) /\ IsFinal(t[k]) THEN k ELSE 0
    ELSE 0

\* the character at j is inside a match; a match holds no ESC but its first
\* character, so no two matches overlap and every match is replaced
InCsi(t, j) == \E i \in 1..j : CsiEnd(t, i) >= j

\* r.replace_all(s, "")
StripCsi(t) ==
    LET marked == [j \in 1..Len(t) |-> <<t[j], InCsi(t, j)>>]
        left == SelectSeq(marked, LAMBDA m : ~m[2])
    IN  [k \in 1..Len(left) |-> left[k][1]]

\* let keep = (ch >= ' ' && ch != '\x7f') || ch == ' '
Keep(ch) == (ch >= 32 /\ ch # DEL) \/ ch = 32

\* cleaned.replace(['\n', '\r', '\t'], " ")
Collapse(t) == [i \in 1..Len(t) |-> IF t[i] \in {10, 13, 9} THEN 32 ELSE t[i]]

\* char::is_whitespace, for the characters of the model
IsWhite(ch) == ch \in {9, 10, 11, 12, 13, 32}

\* str::trim
RECURSIVE TrimText(_)
TrimText(t) ==
    IF t = <<>> THEN t
    ELSE IF IsWhite(Head(t)) THEN TrimText(Tail(t))
    ELSE IF IsWhite(t[Len(t)]) THEN TrimText(SubSeq(t, 1, Len(t) - 1))
    ELSE t

\* trimmed.chars().take(200)
MaxLabelChars == 200
Take(t, n) == SubSeq(t, 1, Min(Len(t), n))

sanitize_for_terminal(t) ==
    Take(TrimText(Collapse(SelectSeq(StripCsi(t), Keep))), MaxLabelChars)

\* String::to_uppercase, for the characters of the model
UpperText(t) == [i \in 1..Len(t) |-> IF t[i] \in 97..122 THEN t[i] - 32 ELSE t[i]]

\* untrusted strings: short ones of ESC, [, 1, m, space, newline and DEL, and
\* ones longer than a label may be
MaxText == 3
TextChars == {ESC, 91, 49, 109, 32, 10, DEL}
LongText == [i \in 1..(MaxLabelChars + 1) |-> 109]
Texts ==
    UNION {[1..n -> TextChars] : n \in 0..MaxText}
        \cup {LongText, <<ESC, 91, 49, 109>> \o LongText}

Written(where, field) == [where |-> where, field |-> field]

\* a feed name or a story title has arrived and nothing is written yet
InitLabels ==
    /\ NoMenu /\ NoPrompt /\ NoCall /\ NoProcess
    /\ feeds = <<>>
    /\ history = {}
    /\ all = <<>>
    /\ pc = "label"
    /\ fi = 1
    /\ total = 0
    /\ buf = 0
    /\ chunks = 0
    /\ last = NoLast
    /\ log = <<>>
    /\ merged = <<>>
    /\ returned = NotReturned
    /\ text \in Texts
    /\ written = NoWritten

Write(where, field) ==
    /\ written' = Written(where, field)
    /\ pc' = "written"
    /\ UNCHANGED <<menuVars, navVars, procVars, candidate, base, normalized, text, feeds,
                   history, all, fi, total, buf, chunks, last, log, merged, returned>>

\* news_menu: the source name in "== {} == ({} entries)"
WriteHeaderLabel ==
    /\ pc = "label"
    /\ Write("header label", sanitize_for_terminal(UpperText(text)))

\* news_menu: the title in "  - {}" and "  - [NEW] {}"
WriteEntryLabel ==
    /\ pc = "label"
    /\ Write("entry label", sanitize_for_terminal(text))

\* source_menu: the title in a label
WriteSourceEntryLabel ==
    /\ pc = "label"
    /\ Write("source entry label", sanitize_for_terminal(text))

\* source_menu: the source name in "{} - all entries (b = back, q = quit)"
WriteSourcePrompt ==
    /\ pc = "label"
    /\ Write("source prompt", text)

NextLabels ==
    \/ WriteHeaderLabel
    \/ WriteEntryLabel
    \/ WriteSourceEntryLabel
    \/ WriteSourcePrompt

SpecLabels == InitLabels /\ [][NextLabels]_vars

(* ------------------------------ claims --------------------------------- *)
Collected == pc = "menu"
Links(v) == {v[i].link : i \in 1..Len(v)}
Range(v) == {v[i] : i \in 1..Len(v)}

\* C1: the sort-and-dedup step of collect_stories keeps exactly one Story per
\* distinct link of the merged list (no two output Stories share a link, every
\* input link is represented, every output Story is one of the input), and
\* applying the step to its own output changes nothing.
C1_DedupOnePerLink ==
    Collected =>
        /\ \A i, j \in 1..Len(all) : i # j => all[i].link # all[j].link
        /\ Links(all) = Links(merged)
        /\ Range(all) \subseteq Range(merged)
        /\ Len(all) = Cardinality(Links(merged))
        /\ SortAndDedup(all) = all

\* two merged entries with one link, of which one is left
C1_Witness ==
    /\ pc = "menu"
    /\ Len(merged) = 2
    /\ merged[1].link = merged[2].link
    /\ merged[1] # merged[2]
    /\ Len(all) = 1

\* the stories gathered so far, before or after the final step
MergedSoFar == IF Collected THEN merged ELSE all

\* an entry whose candidate link is a usable http(s) link: an absolute http(s)
\* URL, or a relative reference when the feed has a base URL
Usable(entry, b) ==
    LET c == RawLink(entry)
    IN  \/ c.kind = "absolute" /\ LowerScheme(c.scheme) \in {"http", "https"}
        \/ c.kind = "relative" /\ b.some

\* <<title, source>> of the usable entries of the handled feeds, in order
RECURSIVE UsableOf(_)
UsableOf(k) ==
    IF k = 0 THEN <<>>
    ELSE UsableOf(k - 1) \o
         [i \in 1..Len(SelectSeq(log[k].entries, LAMBDA e : Usable(e, BaseOf(feeds[k])))) |->
            <<TitleOf(SelectSeq(log[k].entries, LAMBDA e : Usable(e, BaseOf(feeds[k])))[i]),
              feeds[k].name>>]

\* C2: every Story has a non-empty link whose scheme is http or https, and the
\* Stories are exactly the entries with a usable candidate link: an entry whose
\* candidate is empty, unresolvable or of another scheme never becomes a Story.
C2_LinksAreHttp ==
    /\ \A i \in 1..Len(all) :
          all[i].link # <<>> /\ SchemeOf(all[i].link) \in {"http", "https"}
    /\ pc \in {"fetch", "menu"} =>
          [i \in 1..Len(MergedSoFar) |-> <<MergedSoFar[i].title, MergedSoFar[i].source>>]
              = UsableOf(Len(log))

\* a feed gave entries of which some were dropped and one became a Story
C2_Witness ==
    /\ pc = "menu"
    /\ Len(all) = 1
    /\ \E k \in 1..Len(log) : \E i, j \in 1..Len(log[k].entries) :
          /\ RawLink(log[k].entries[i]).kind = "absolute"
          /\ RawLink(log[k].entries[i]).scheme = "ftp"
          /\ Usable(log[k].entries[j], BaseOf(feeds[k]))

\* C4: is_new of a Story is true exactly when the seen-store passed to
\* collect_stories does not hold the Story's link, before and after the dedup.
C4_NewFlag ==
    /\ \A i \in 1..Len(all) : all[i].is_new = (all[i].link \notin history)
    /\ \A i \in 1..Len(merged) : merged[i].is_new = (merged[i].link \notin history)

\* a result with a seen story and a new one
C4_Witness ==
    /\ pc = "menu"
    /\ \E i, j \in 1..Len(all) :
          /\ all[i].link \in history /\ ~all[i].is_new
          /\ all[j].link \notin history /\ all[j].is_new

\* C5: for files and responses, the parser gets a payload only when its size is
\* within the cap, and then the whole of it; a payload reported too large is
\* over the cap (one of exactly the cap is not), none of it is kept, and its
\* feed contributes no entries.
C5_SizeCap ==
    /\ pc = "parse" => ~(total > max_feed_bytes) /\ buf = total
    /\ (pc = "after" /\ last.outcome = "complete") => buf = total
    /\ last.outcome = "too_large" =>
          /\ last.size > max_feed_bytes
          /\ pc \in {"after", "fetch", "menu"}
          /\ buf = 0
          /\ pc # "after" => log[Len(log)] = [ok |-> FALSE, entries |-> <<>>]

\* a response of exactly the cap is at the parser
C5_Witness ==
    /\ pc = "parse"
    /\ ~feeds[fi].isFile
    /\ total = max_feed_bytes

\* the Stories the handled feeds give when each parsed feed is taken alone
RECURSIVE ExpectedOf(_)
ExpectedOf(k) ==
    IF k = 0 THEN <<>>
    ELSE ExpectedOf(k - 1) \o
         (IF log[k].ok
          THEN push_entries(<<>>, log[k].entries, feeds[k].name, BaseOf(feeds[k]), history)
          ELSE <<>>)

\* C6: whatever fails, collect_stories returns Ok; the merged list is the
\* concatenation of what the parsed feeds give, untouched by the failures of the
\* others, the result is its sort-and-dedup, and it is empty when all fail.
C6_FailureIsolation ==
    /\ pc \in {"fetch", "menu"} => MergedSoFar = ExpectedOf(Len(log))
    /\ pc \notin {"fetch", "menu"} => all = ExpectedOf(Len(log)) /\ Len(log) = fi - 1
    /\ Collected =>
          /\ returned.ok
          /\ Len(log) = Len(feeds)
          /\ returned.stories = SortAndDedup(ExpectedOf(Len(feeds)))
          /\ (\A k \in 1..Len(log) : ~log[k].ok) => returned.stories = <<>>

\* the first feed gave a Story, the second failed, and the Story is returned
C6_Witness ==
    /\ pc = "menu"
    /\ Len(log) = 2
    /\ log[1].ok /\ ~log[2].ok
    /\ Len(returned.stories) = 1

\* the configured feeds whose name has stories, in configured order
WithStories == SelectSeq(feeds, LAMBDA f : \E i \in 1..Len(all) : all[i].source = f.name)

\* C7: the header rows of the top-level menu follow the configured order: the
\* k-th header row is that of the k-th configured feed whose name has stories,
\* at increasing row indices, and a name with no story has no header row.
C7_HeaderOrder ==
    pc = "menu" =>
        /\ Len(header_indices) = Len(WithStories)
        /\ \A k \in 1..Len(header_indices) :
              /\ header_indices[k] + 1 \in 1..Len(index_map)
              /\ index_map[header_indices[k] + 1] = HeaderItem(WithStories[k].name)
        /\ \A k, l \in 1..Len(header_indices) : k < l => header_indices[k] < header_indices[l]
        /\ \A r \in 1..Len(index_map) :
              index_map[r].kind = "Header" =>
                  \E k \in 1..Len(header_indices) : header_indices[k] + 1 = r
        /\ \A i \in 1..Len(feeds) :
              (\A j \in 1..Len(all) : all[j].source # feeds[i].name) =>
                  \A r \in 1..Len(index_map) : index_map[r].source # feeds[i].name

\* two sources, the stories of the second before those of the first
C7_Witness ==
    /\ pc = "menu"
    /\ Len(feeds) = 2
    /\ feeds[1].name # feeds[2].name
    /\ Len(all) = 2
    /\ all[1].source = feeds[2].name
    /\ all[2].source = feeds[1].name
    /\ Len(header_indices) = 2

\* C3: normalize_link follows its decision table: a blank candidate gives no
\* link; an absolute candidate gives its own URL, whatever the base, when its
\* scheme is http or https and no link otherwise; a candidate that is not
\* absolute gives no link without a base or when the join fails, and with a
\* base the joined URL when that has scheme http or https; no other link is
\* ever returned.
C3_DecisionTable ==
    pc = "return" =>
        /\ candidate.kind = "blank" => normalized = None
        /\ candidate.kind = "absolute" =>
              normalized =
                  IF LowerScheme(candidate.scheme) \in {"http", "https"}
                  THEN Some(<<LowerScheme(candidate.scheme), candidate.host>> \o candidate.segs)
                  ELSE None
        /\ (candidate.kind \in {"relative", "malformed"} /\ ~base.some) => normalized = None
        /\ candidate.kind = "malformed" => normalized = None
        /\ (candidate.kind = "relative" /\ base.some) =>
              normalized =
                  IF base.val.scheme \in {"http", "https"}
                  THEN Some(<<base.val.scheme, base.val.host>>
                            \o (IF candidate.rooted THEN <<>> ELSE DirOf(base.val.path))
                            \o candidate.segs)
                  ELSE None
        /\ normalized.some => SchemeOf(normalized.val) \in {"http", "https"}

\* an absolute ftp candidate gave no link although a base was there
C3_Witness ==
    /\ pc = "return"
    /\ candidate.kind = "absolute"
    /\ candidate.scheme = "ftp"
    /\ base = Some(UrlA)
    /\ normalized = None

\* C8: in arrow mode on a list of N > 0 rows, after every render
\* 0 <= viewportTop <= selectedIndex < viewportTop + W and selectedIndex <= N-1,
\* W being the max_visible of that render, whatever keys were pressed.
C8_ViewportInvariant ==
    (mode = "arrow" /\ nItems > 0) =>
        /\ 0 <= top
        /\ top <= sel
        /\ sel < top + maxVisible
        /\ 0 <= sel
        /\ sel <= nItems - 1

\* the window has scrolled down and the selection is its last row
C8_Witness ==
    /\ mode = "arrow"
    /\ maxVisible < nItems
    /\ top > 0
    /\ sel = top + maxVisible - 1
    /\ key \in {"ArrowDown", "PageDown", "End", "Tab"}

\* C9: in arrow mode Tab moves the selection to the first header index that is
\* strictly greater than the selection, or to the first header index of the
\* list when none is greater; without a header list, or with an empty one, Tab
\* leaves the selection where it is.
C9_TabJump ==
    [][ (mode = "arrow" /\ key' = "Tab") =>
            LET hv == hidx.val
                greater == {k \in 1..Len(hv) : hv[k] > sel}
            IN  sel' = IF hidx.some /\ hv # <<>>
                       THEN IF greater = {} THEN hv[1]
                            ELSE hv[CHOOSE k \in greater : \A j \in greater : k <= j]
                       ELSE sel
      ]_vars

\* Tab has taken the selection from below the last header back to the first
C9_Witness ==
    /\ mode = "arrow"
    /\ key = "Tab"
    /\ hidx.some
    /\ Len(hidx.val) = 2
    /\ sel = hidx.val[1]
    /\ top = 0
    /\ maxVisible < nItems

\* C10: the first key fixes the path of the invocation: a navigation key enters
\* arrow mode, which only Enter, q/Q, b/B or Escape leave (a typed digit changes
\* nothing); q/Q resolves to Quit and b/B to Back at once; Enter resolves to
\* Index(default) or, without a default, to the error "no selection"; any other
\* key enters typed mode, which resolves from one line and never turns into
\* arrow mode.
C10_FirstKeyDecides ==
    [][ /\ mode = "first" =>
              /\ key' \in NavKeys => mode' = "arrow"
              /\ key' \in QuitKeys => mode' = "resolved" /\ result' = QuitChoice
              /\ key' \in BackKeys => mode' = "resolved" /\ result' = BackChoice
              /\ key' = "Enter" =>
                    /\ mode' = "resolved"
                    /\ result' = IF dflt.some THEN IndexChoice(dflt.val)
                                 ELSE ErrChoice("no selection")
              /\ key' \notin NavKeys \cup QuitKeys \cup BackKeys \cup {"Enter"} =>
                    mode' = "typed"
        /\ mode = "arrow" =>
              /\ mode' \in {"arrow", "resolved"}
              /\ mode' = "resolved" =>
                    key' \in {"Enter", "Escape"} \cup QuitKeys \cup BackKeys
              /\ key' \in Digits => mode' = "arrow" /\ sel' = sel /\ result' = result
        /\ mode = "typed" =>
              /\ mode' = "resolved"
              /\ key' = key
              /\ result' = parse_selection(line', nItems, dflt)
        /\ mode = "resolved" => FALSE
      ]_vars

\* arrow mode, entered by a navigation key, has just ignored a typed digit
C10_Witness ==
    /\ mode = "arrow"
    /\ key = "1"
    /\ result = NoResult

\* the text of a line between its first and its last character that is no space
Core(l) ==
    LET solid == {i \in 1..Len(l) : l[i] # " "}
    IN  IF solid = {} THEN <<>>
        ELSE SubSeq(l, CHOOSE i \in solid : \A j \in solid : i <= j,
                       CHOOSE i \in solid : \A j \in solid : j <= i)

\* a decimal integer: digits, after an optional "+" sign
IsDecimal(s) ==
    LET ds == IF s # <<>> /\ s[1] = "+" THEN SubSeq(s, 2, Len(s)) ELSE s
    IN  ds # <<>> /\ \A i \in 1..Len(ds) : ds[i] \in Digits
DecimalOf(s) == DecimalVal(SelectSeq(s, LAMBDA ch : ch \in Digits))

ResolvedTo(kind) == mode = "resolved" /\ result.kind = kind

\* the same menu is on screen again, waiting for its first key
SameMenuAgain == pc' = pc /\ mode' = "first" /\ exit' = "running" /\ nItems' = nItems

\* C12: a selection error (invalid or out-of-range typed selection, bare Enter
\* with no default) in the main menu, the news menu or a source menu does not
\* end the session: the same menu is shown again and the process keeps running
C12_ErrorShowsMenuAgain ==
    [][ (pc \in {"main_menu", "news_menu", "source_menu"} /\ ResolvedTo("Err"))
            => SameMenuAgain ]_vars

\* C13: whenever a menu resolves to Quit the process ends without a further
\* menu, after one attempt to save the seen-store
C13_QuitEndsProcess ==
    [][ (pc \in {"main_menu", "news_menu", "source_menu"} /\ ResolvedTo("Quit"))
            => (pc' = "exit" /\ exit' = "ok" /\ saves' = saves + 1) ]_vars

\* the story of the row picked in the menu on screen
PickedStory ==
    IF pc \in {"news_menu", "news_opened"}
    THEN LET item == index_map[result.idx + 1] IN by_source[item.source][item.idx + 1]
    ELSE by_source[cur][result.idx + 1]

\* the row picked in the menu on screen is an Entry row
PickedEntryRow ==
    /\ ResolvedTo("Index")
    /\ \/ pc = "news_menu" /\ result.idx < Len(index_map)
                           /\ index_map[result.idx + 1].kind = "Story"
       \/ pc = "source_menu" /\ result.idx < Len(by_source[cur])

\* C14: picking an Entry row in the news menu or in a source menu calls the
\* URL opener with the link of that story, and whether the open succeeds or
\* fails the same menu is shown again and the process keeps running
C14_OpenThenSameMenu ==
    [][ /\ PickedEntryRow
            => /\ opened'.called /\ opened'.link = PickedStory.link
               /\ pc' = (IF pc = "news_menu" THEN "news_opened" ELSE "source_opened")
               /\ exit' = "running"
        /\ pc \in {"news_opened", "source_opened"}
            => /\ pc' = (IF pc = "news_opened" THEN "news_menu" ELSE "source_menu")
               /\ mode' = "first" /\ exit' = "running"
               /\ UNCHANGED <<labels, index_map, by_source, cur, history>>
               /\ nItems' = (IF pc = "news_opened" THEN Len(labels) ELSE Len(by_source[cur])) ]_vars

\* an open has failed in a source menu and the process is still running
C14_Witness ==
    /\ pc = "source_opened" /\ opened.called /\ ~opened.ok
    /\ opened.link = by_source[cur][result.idx + 1].link
    /\ exit = "running"

\* the links of the deduplicated story set of the session
SessionLinks == {all[i].link : i \in 1..Len(all)}

\* C15: the seen-store is not modified during ingestion and browsing; when
\* the browsing ends with Back, every link of the deduplicated story set is
\* marked as seen, opened or not, shown or not
C15_MarkAllAfterBack ==
    [][ IF pc = "news_menu" /\ ResolvedTo("Back")
        THEN history' = history \cup SessionLinks
        ELSE history' = history ]_vars

\* the last story of the big feed, which the 10-per-source cap hides
HiddenLink == IntoString(MkUrl("http", "y.com", [j \in 1..(MenuCap + 1) |-> "a"]))

\* back at the main menu, a story the menu never showed is marked as seen
C15_Witness ==
    /\ pc = "main_menu" /\ mode = "first"
    /\ HiddenLink \in history
    /\ LinkXA \in history

\* C16: with an empty story list the news menu never makes the orchestrator
\* index a row that does not exist, whatever the keys
C16_EmptyListSafe ==
    (pc = "news_menu" /\ all = <<>> /\ ResolvedTo("Index")) => result.idx < Len(index_map)

(* --------------------------- the order of appends ----------------------- *)
\* what the k-th configured feed appended to the merged list
Contribution(k) ==
    IF log[k].ok
    THEN push_entries(<<>>, log[k].entries, feeds[k].name, BaseOf(feeds[k]), history)
    ELSE <<>>

\* the orders in which the feeds' lists can be appended
AppendOrders == {p \in [1..Len(feeds) -> 1..Len(feeds)] : \A i, j \in 1..Len(feeds) : p[i] = p[j] => i = j}

\* the merged list when the lists are appended in the order p
RECURSIVE AppendedIn(_, _)
AppendedIn(p, k) == IF k = 0 THEN <<>> ELSE AppendedIn(p, k - 1) \o Contribution(p[k])

\* the first story of v with the given link
FirstWith(v, link) == v[CHOOSE i \in 1..Len(v) : v[i].link = link /\ \A j \in 1..(i - 1) : v[j].link # link]

HeaderRows(source) == {r \in 1..Len(index_map) : index_map[r] = HeaderItem(source)}

\* C19: the stories of configured feeds with one name form one group, and
\* every source name present in the fetched data has exactly one header row
\* in the top-level menu
C19_OneHeaderPerName ==
    pc = "menu" =>
        /\ DOMAIN by_source = {all[i].source : i \in 1..Len(all)}
        /\ \A source \in DOMAIN by_source : Cardinality(HeaderRows(source)) = 1

(* --------------------------------- paging ------------------------------- *)
\* the selection after a page key that moves by step rows
PagedBy(step) ==
    IF key' = "PageDown" THEN Min(sel + step, saturating_sub(nItems, 1))
    ELSE saturating_sub(sel, step)

\* C20 as stated: in arrow mode with N rows and a window of W rows, PageDown
\* moves the selection forward by W rows and PageUp back by W rows, each
\* clamped to [0, N-1]
C20_PageIsWindow ==
    [][ (mode = "arrow" /\ key' \in {"PageUp", "PageDown"}) => sel' = PagedBy(maxVisible) ]_vars

\* C20: in arrow mode with N rows and a window of W rows, PageDown moves the
\* selection forward by max(W-1, 1) rows and PageUp back by max(W-1, 1) rows,
\* each clamped to [0, N-1] (to 0 when there is no row)
C20_PageIsWindowLessOne ==
    [][ (mode = "arrow" /\ key' \in {"PageUp", "PageDown"})
            => /\ sel' = PagedBy(Max(maxVisible - 1, 1))
               /\ sel' >= 0 /\ sel' <= Max(nItems - 1, 0)
               /\ maxVisible <= nItems /\ (nItems >= 3 => maxVisible >= 3) ]_vars

\* PageDown has moved the selection from row 0 to row 2 in a window of 3 rows
C20_Witness ==
    /\ mode = "arrow"
    /\ key = "PageDown"
    /\ nItems > 3
    /\ maxVisible = 3
    /\ sel = 2
    /\ top = 0

(* ------------------------- text on the terminal ------------------------- *)
\* C18: every story title and every source name that the news menus write to
\* the terminal (header labels, entry labels, the menu text of a source menu)
\* has passed through sanitize_for_terminal: the text written for it has no
\* ESC, C0 control or DEL character and at most 200 characters
C18_WrittenTextIsSafe ==
    /\ \A i \in 1..Len(written.field) : written.field[i] >= 32 /\ written.field[i] # DEL
    /\ Len(written.field) <= MaxLabelChars
    /\ written.where # "none" => written.field = sanitize_for_terminal(written.field)

(* ------------------------------ the viewport ---------------------------- *)
\* C21 as stated: at each arrow-mode render, if the selection is above the
\* window viewportTop becomes the selection; if it is at or below the window's
\* end viewportTop becomes selection + 1 - W; otherwise viewportTop is unchanged
C21_ViewportFollows ==
    [][ mode' = "arrow" =>
            top' = IF sel' < top THEN sel'
                   ELSE IF sel' >= top + maxVisible' THEN sel' + 1 - maxVisible'
                   ELSE top ]_vars

\* C21: at each arrow-mode render viewportTop is first lowered to the
\* selection when the selection is above the window; then, when the selection
\* is at or below the end of the window that starts there, viewportTop becomes
\* selection + 1 - W; with W >= 1 at most one of the two applies, and with
\* W = 0 (no row) the second always does
C21_ViewportFollowsInTurn ==
    [][ mode' = "arrow" =>
            LET lowered == IF sel' < top THEN sel' ELSE top
            IN  /\ top' = IF sel' >= lowered + maxVisible' THEN sel' + 1 - maxVisible'
                          ELSE lowered
                /\ maxVisible' >= 1 =>
                      top' = IF sel' < top THEN sel'
                             ELSE IF sel' >= top + maxVisible' THEN sel' + 1 - maxVisible'
                             ELSE top
                /\ maxVisible' = 0 => top' = sel' + 1 ]_vars

\* a menu without rows has been rendered a second time and its viewportTop is
\* past the selection
C21_Witness ==
    /\ mode = "arrow"
    /\ nItems = 0
    /\ maxVisible = 0
    /\ key \in CharKeys
    /\ sel = 0
    /\ top = 1

(* --------------------------- rows and labels ---------------------------- *)
\* news_menu is running: its menu or a source menu is on screen
InNews == pc \in {"news_menu", "news_opened", "source_menu", "source_opened"}

\* the positions (from 0) of the Header rows, in increasing order
RECURSIVE HeaderPositions(_)
HeaderPositions(rows) ==
    IF rows = <<>> THEN <<>>
    ELSE IF rows[Len(rows)].kind = "Header"
    THEN Append(HeaderPositions(SubSeq(rows, 1, Len(rows) - 1)), Len(rows) - 1)
    ELSE HeaderPositions(SubSeq(rows, 1, Len(rows) - 1))

\* the label at row r is the label of the row item at r
RowMatchesLabel(rows, labs, groups, r) ==
    IF rows[r].kind = "Header"
    THEN /\ rows[r].source \in DOMAIN groups
         /\ labs[r].kind = "header"
         /\ labs[r].text = to_uppercase(rows[r].source)
         /\ labs[r].count = Len(groups[rows[r].source])
    ELSE /\ rows[r].kind = "Story"
         /\ rows[r].source \in DOMAIN groups
         /\ rows[r].idx < Len(groups[rows[r].source])
         /\ labs[r].kind = "entry"
         /\ labs[r].text = groups[rows[r].source][rows[r].idx + 1].title
         /\ labs[r].new = groups[rows[r].source][rows[r].idx + 1].is_new

\* C22: in the news menu the row list and the label list have the same
\* length, every row is a Header exactly when its label is the header label of
\* its source and an Entry exactly when its label is the entry label of its
\* story, header_indices is the increasing list of the Header positions, and
\* the lists do not change across the iterations of the menu loops
C22_RowsMatchLabels ==
    [][ /\ InNews' =>
            /\ Len(index_map') = Len(labels')
            /\ \A r \in 1..Len(index_map') : RowMatchesLabel(index_map', labels', by_source', r)
            /\ header_indices' = HeaderPositions(index_map')
        /\ (InNews /\ InNews') => UNCHANGED <<index_map, labels, header_indices, by_source>> ]_vars

\* a story marked [NEW] has been opened from a menu of two sources and its
\* row still carries the marker
C22_Witness ==
    /\ pc = "news_opened"
    /\ opened.called
    /\ result.kind = "Index"
    /\ labels[result.idx + 1].kind = "entry"
    /\ labels[result.idx + 1].new
    /\ Len(header_indices) = 2

(* ------------------------ every story can be reached -------------------- *)
\* the stories of the ingestion output that have the given source
StoriesOf(source) == SelectSeq(all, LAMBDA st : st.source = source)

\* C23: every Story of the ingestion output can be reached from the menu: its
\* source has a header row whose count is the number of all stories of the
\* source, at most 10 entry rows follow a header, selecting the header shows a
\* source menu of all stories of the source, and selecting row i there opens
\* the link of the i-th story of the source
C23_EveryStoryReachable ==
    [][ /\ InNews' =>
            /\ \A i \in 1..Len(all') :
                  \E r \in 1..Len(index_map') :
                      /\ index_map'[r] = HeaderItem(all'[i].source)
                      /\ labels'[r].count = Len(SelectSeq(all', LAMBDA st : st.source = all'[i].source))
            /\ \A r \in 1..Len(index_map') :
                  index_map'[r].kind = "Story" =>
                      /\ index_map'[r].idx < MenuCap
                      /\ r - index_map'[r].idx - 1 >= 1
                      /\ index_map'[r - index_map'[r].idx - 1] = HeaderItem(index_map'[r].source)
        /\ (pc = "news_menu" /\ ResolvedTo("Index") /\ result.idx < Len(index_map)
                /\ index_map[result.idx + 1].kind = "Header")
            => /\ pc' = "source_menu"
               /\ cur' = index_map[result.idx + 1].source
               /\ by_source'[cur'] = StoriesOf(cur')
               /\ nItems' = Len(StoriesOf(cur'))
               /\ mode' = "first"
        /\ (pc = "source_menu" /\ ResolvedTo("Index") /\ result.idx < Len(StoriesOf(cur)))
            => /\ opened'.called
               /\ opened'.link = StoriesOf(cur)[result.idx + 1].link ]_vars

\* the eleventh story of a source, which has no row in the news menu, has been
\* opened from the source menu
C23_Witness ==
    /\ pc = "source_opened"
    /\ result = IndexChoice(MenuCap)
    /\ opened.called
    /\ opened.link = HiddenLink
    /\ \A r \in 1..Len(index_map) : index_map[r].idx < MenuCap

(* ------------------------ the order within a source --------------------- *)
\* the stories of a source that the ingestion kept, in the order in which
\* the feeds gave them
InFeedOrder(source) ==
    SelectSeq(merged, LAMBDA st : st.source = source /\ st \in Range(all))

\* the stories that the entry rows under the header at row h show, in order
ShownUnder(h) ==
    LET source == index_map[h].source
        n == Min(Len(by_source[source]), MenuCap)
    IN  [k \in 1..n |-> by_source[index_map[h + k].source][index_map[h + k].idx + 1]]

\* C24 as stated: within each source the grouped view holds the stories in
\* the order in which the entries were met in the feed, and the entry rows
\* under a header are the first 10 of that order
C24_FeedOrderWithinSource ==
    InNews =>
        /\ \A source \in DOMAIN by_source : by_source[source] = InFeedOrder(source)
        /\ \A h \in 1..Len(index_map) :
              index_map[h].kind = "Header" =>
                  ShownUnder(h) = SubSeq(InFeedOrder(index_map[h].source), 1,
                                         Min(Len(InFeedOrder(index_map[h].source)), MenuCap))

\* C24: within each source the grouped view holds the stories in the order of
\* the ingestion output, which is the increasing order of their links, and
\* the entry rows under a header are the first 10 of that order
C24_LinkOrderWithinSource ==
    InNews =>
        /\ \A source \in DOMAIN by_source :
              /\ by_source[source] = StoriesOf(source)
              /\ \A i, j \in 1..Len(by_source[source]) :
                    i < j => StrLess(by_source[source][i].link, by_source[source][j].link)
        /\ \A h \in 1..Len(index_map) :
              index_map[h].kind = "Header" =>
                  /\ h + Min(Len(by_source[index_map[h].source]), MenuCap) <= Len(index_map)
                  /\ ShownUnder(h) = SubSeq(StoriesOf(index_map[h].source), 1,
                                            Min(Len(StoriesOf(index_map[h].source)), MenuCap))

\* the feed gave its longest link first; that story is the last of its group
\* and the only one without an entry row
C24_Witness ==
    /\ pc = "news_menu"
    /\ "Wire" \in DOMAIN by_source
    /\ Len(by_source["Wire"]) = MenuCap + 1
    /\ InFeedOrder("Wire")[1].link = HiddenLink
    /\ by_source["Wire"][MenuCap + 1].link = HiddenLink
    /\ \A h \in 1..Len(index_map) :
          index_map[h] = HeaderItem("Wire") =>
              \A k \in 1..MenuCap : ShownUnder(h)[k].link # HiddenLink

(* ----------------------------- source labels ---------------------------- *)
\* the configured names
ConfiguredNames == {feeds[k].name : k \in 1..Len(feeds)}

\* the story comes from an entry of the k-th configured feed
ProducedBy(st, k) ==
    /\ log[k].ok
    /\ \E i \in 1..Len(log[k].entries) :
          LET e == log[k].entries[i]
          IN  /\ Usable(e, BaseOf(feeds[k]))
              /\ st.title = TitleOf(e)
              /\ st.link = normalize_link(RawLink(e), BaseOf(feeds[k])).val

\* C25: the source of every Story is the configured name of the feed whose
\* entry it comes from; every group key of the menu is a configured name and
\* the step for the sources that the configuration lacks adds no row
C25_SourceIsConfiguredName ==
    /\ \A i \in 1..Len(all) :
          /\ all[i].source \in ConfiguredNames
          /\ \E k \in 1..Len(log) : ProducedBy(all[i], k) /\ all[i].source = feeds[k].name
    /\ pc = "menu" =>
          /\ DOMAIN by_source \subseteq ConfiguredNames
          /\ [labels |-> labels, index_map |-> index_map, header_indices |-> header_indices]
                = PushConfigured(EmptyMenu, feeds, by_source)

\* two feeds of different names gave one story each, and the menu has a
\* header and an entry row for each
C25_Witness ==
    /\ pc = "menu"
    /\ Len(feeds) = 2
    /\ Len(all) = 2
    /\ all[1].source # all[2].source
    /\ Len(index_map) = 4
    /\ Len(header_indices) = 2

(* ------------------------- the index that comes back -------------------- *)
\* C26: every Index(i) that the engine returns, by any path, has
\* 0 <= i < N for the N rows it was given, for every N >= 0 and every default
C26_IndexInRange ==
    (mode = "resolved" /\ result.kind = "Index") => (0 <= result.idx /\ result.idx < nItems)

(* ------------------------------ the first key --------------------------- *)
\* C27 as stated: the first navigation key of an invocation only selects
\* arrow mode and is not applied as a move: at the first arrow-mode render the
\* selection is the default, clamped to the last row, or 0, and viewportTop is
\* 0, whichever navigation key was pressed
C27_FirstKeyIsNoMove ==
    [][ (mode = "first" /\ mode' = "arrow") =>
            /\ sel' = (IF dflt.some
                       THEN (IF dflt.val <= nItems - 1 THEN dflt.val ELSE Max(nItems - 1, 0))
                       ELSE 0)
            /\ top' = 0 ]_vars

\* C27: the first navigation key of an invocation only selects arrow mode and
\* is not applied as a move: at the first arrow-mode render the selection is
\* the default, clamped to the last row, or 0, whichever navigation key was
\* pressed, and viewportTop is 0 when the selection is within the first W rows
\* and selection + 1 - W otherwise, which is 1 for a menu without rows
C27_FirstKeyIsNoMoveTopFollows ==
    [][ (mode = "first" /\ mode' = "arrow") =>
            /\ key' \in NavKeys
            /\ sel' = (IF dflt.some
                       THEN (IF dflt.val <= nItems - 1 THEN dflt.val ELSE Max(nItems - 1, 0))
                       ELSE 0)
            /\ top' = (IF sel' < maxVisible' THEN 0 ELSE sel' + 1 - maxVisible')
            /\ nItems > 0 => top' = 0
            /\ nItems = 0 => top' = 1 ]_vars

\* End was the first key of a menu of several rows and the selection is
\* still the first row
C27_Witness ==
    /\ mode = "arrow"
    /\ key = "End"
    /\ nItems >= 2
    /\ sel = 0
    /\ top = 0

(* ------------------------- which duplicate survives --------------------- *)
\* the j-th entry of the k-th configured feed is usable and gives the link
GivesLink(k, j, link) ==
    /\ log[k].ok
    /\ j \in 1..Len(log[k].entries)
    /\ Usable(log[k].entries[j], BaseOf(feeds[k]))
    /\ normalize_link(RawLink(log[k].entries[j]), BaseOf(feeds[k])).val = link

\* no earlier feed, and no earlier entry of the same feed, gives the link
EarliestWith(k, j, link) ==
    /\ GivesLink(k, j, link)
    /\ \A k2 \in 1..Len(log), j2 \in 1..MaxEntries :
          GivesLink(k2, j2, link) => (k < k2 \/ (k = k2 /\ j <= j2))

\* C28: of several merged entries that normalize to one link, the Story that
\* survives the deduplication is the one appended first: the entry of the
\* earliest configured feed that has the link, and the earliest such entry of
\* that feed
C28_FirstAppendedSurvives ==
    Collected =>
        \A i \in 1..Len(all) :
            /\ all[i] = FirstWith(merged, all[i].link)
            /\ \E k \in 1..Len(log), j \in 1..MaxEntries :
                  /\ EarliestWith(k, j, all[i].link)
                  /\ all[i].title = TitleOf(log[k].entries[j])
                  /\ all[i].source = feeds[k].name

\* two feeds gave one link under different titles and the Story of the first
\* feed is the one returned
C28_Witness ==
    /\ pc = "menu"
    /\ Len(feeds) = 2
    /\ Len(merged) = 2
    /\ merged[1].link = merged[2].link
    /\ merged[1].title # merged[2].title
    /\ merged[1].source # merged[2].source
    /\ all = <<merged[1]>>
    /\ all[1].source = feeds[1].name

(* --------------------------- the next session -------------------------- *)
\* C29: within one run, after a News session has ended with Back every link
\* of its story set is in the seen-store and stays there, so a later session
\* that fetches such a link gives its story is_new = false; a session that
\* ends with an error marks none of its links
C29_SeenInLaterSession ==
    [][ /\ history \subseteq history'
        /\ (pc = "news_menu" /\ ResolvedTo("Back"))
            => (SessionLinks \subseteq history' /\ pc' = "main_menu")
        /\ (pc = "main_menu" /\ pc' = "news_menu")
            => \A i \in 1..Len(all') : all'[i].is_new = (all'[i].link \notin history)
        /\ (InNews /\ exit' = "error") => history' = history ]_vars

\* a second session of the run shows a story that the first one fetched, and
\* the story is not new
C29_Witness ==
    /\ pc = "news_menu"
    /\ Len(all) >= 1
    /\ all[1].link = LinkXA
    /\ ~all[1].is_new
    /\ LinkXA \in history

====
